---------------------------- MODULE Spec2Model ----------------------------
(***************************************************************************)
(* A model of the sfo package (PlayStation SFO reader/writer).             *)
(*                                                                         *)
(* The backing file is a sequence of bytes (0..255).  A string or a byte   *)
(* slice is a sequence of bytes too.  The decoder NewSFOParser, the        *)
(* encoder SaveSFO and the two mutators are translated statement by        *)
(* statement; integers keep the width the Go types give them.              *)
(***************************************************************************)
EXTENDS Integers, Sequences, FiniteSets, TLC

VARIABLES
    path,      \* what FilePath names on disk: "file", "dir" or "missing"
    file,      \* the bytes of the backing file
    parser,    \* <<>> for a nil *SFOParser, <<p>> for a pointer to p
    op,        \* the last exported function that was called
    ret,       \* the error it returned ("nil" for no error, "panic: ..." for a crash)
    calls      \* how many mutator and save calls were made

vars == <<path, file, parser, op, ret, calls>>

---------------------------------------------------------------------------
(* Bounds of the model.                                                    *)

\* The largest number of sections in a file the model starts from.
MaxSects == 2

\* The largest number of mutator and save calls made in one run.
MaxCalls == 2

---------------------------------------------------------------------------
(* Fixed-width integers and their little-endian encodings.                 *)

MaxInt32 == 2147483647

MinInt32 == (-2147483647) - 1

\* int16(n) for an int32 or int n: the low 16 bits, sign-extended.
ToInt16(n) ==
    LET m == n % 65536
    IN  IF m >= 32768 THEN m - 65536 ELSE m

\* a + b in int32 arithmetic (wraps around).
Add32(a, b) ==
    IF a >= 0 /\ b >= 0 /\ a > MaxInt32 - b
    THEN ((a - MaxInt32) - 1) + ((b - MaxInt32) - 1)
    ELSE IF a < 0 /\ b < 0 /\ a < MinInt32 - b
    THEN ((a + MaxInt32) + 1) + ((b + MaxInt32) + 1)
    ELSE a + b

\* The value, as an int32, of 4 little-endian bytes.
Int32FromBytes(b) ==
    LET low == b[1] + 256 * b[2] + 65536 * b[3] + 16777216 * (b[4] % 128)
    IN  IF b[4] >= 128 THEN (low - MaxInt32) - 1 ELSE low

\* The value, as an int16, of 2 little-endian bytes.
Int16FromBytes(b) == ToInt16(b[1] + 256 * b[2])

\* The 4 little-endian bytes of an int32.
LE32(v) ==
    LET u == IF v < 0 THEN (v + MaxInt32) + 1 ELSE v
    IN  << u % 256,
           (u \div 256) % 256,
           (u \div 65536) % 256,
           (u \div 16777216) + (IF v < 0 THEN 128 ELSE 0) >>

\* The 2 little-endian bytes of an int16.
LE16(v) ==
    LET u == IF v < 0 THEN v + 65536 ELSE v
    IN  << u % 256, u \div 256 >>

\* n zero bytes.
Zeros(n) == [i \in 1..n |-> 0]

Max(a, b) == IF a >= b THEN a ELSE b

Min(a, b) == IF a <= b THEN a ELSE b

---------------------------------------------------------------------------
(* The types of the package.                                               *)

ByteType == 0

StringType == 2

IntType == 4

\* binary.Size(PsfHdr{}): 4 + 4 + 4 + 4 + 4.
HdrSize == 20

\* binary.Size(PsfSec{}): 2 + 1 + 1 + 4 + 4 + 4.
SecSize == 16

\* []byte{0, 'P', 'S', 'F'}
Magic == <<0, 80, 83, 70>>

\* The dynamic value of SFOPair.Value: a []byte, a string, an int32 or nil.
BytesVal(b) == [kind |-> "bytes", b |-> b, n |-> 0]

StringVal(b) == [kind |-> "string", b |-> b, n |-> 0]

IntVal(n) == [kind |-> "int32", b |-> <<>>, n |-> n]

NilVal == [kind |-> "nil", b |-> <<>>, n |-> 0]

\* alignment with the test for an aligned number left out.
alignmentAlwaysPads(num, align) == num + 4 - (num % align)

\* func alignment(num, align int) int
alignment(num, align) ==
    LET tmp == num % align
    IN  IF tmp # 0 THEN num + 4 - tmp ELSE num

---------------------------------------------------------------------------
(* Reading the file.  A position is a byte offset from the file's start.   *)

\* file.Seek(off, io.SeekStart) with the error ignored: a negative offset
\* fails and leaves the position where it was.
Seek(pos, off) == IF off < 0 THEN pos ELSE off

\* binary.Read of a PsfHdr: io.ReadFull of HdrSize bytes from position 0.
ReadHdr(f) ==
    IF Len(f) = 0 THEN [err |-> "EOF", hdr |-> <<>>]
    ELSE IF Len(f) < HdrSize THEN [err |-> "unexpected EOF", hdr |-> <<>>]
    ELSE [err |-> "nil",
          hdr |-> << [Psf      |-> SubSeq(f, 1, 4),
                      Unknown  |-> SubSeq(f, 5, 8),
                      LabelPtr |-> Int32FromBytes(SubSeq(f, 9, 12)),
                      DataPtr  |-> Int32FromBytes(SubSeq(f, 13, 16)),
                      NSects   |-> Int32FromBytes(SubSeq(f, 17, 20))] >>]

\* The PsfSec held by the SecSize bytes b.
SecFromBytes(b) ==
    [LabelOff      |-> Int16FromBytes(SubSeq(b, 1, 2)),
     Unknown       |-> b[3],
     DataType      |-> b[4],
     DatafieldUsed |-> Int32FromBytes(SubSeq(b, 5, 8)),
     DatafieldSize |-> Int32FromBytes(SubSeq(b, 9, 12)),
     DataOff       |-> Int32FromBytes(SubSeq(b, 13, 16))]

\* The loop of binary.Read calls that reads NSects section descriptors right
\* after the header.  The first read that finds no byte fails with EOF, one
\* that finds fewer than SecSize bytes with unexpected EOF.
ReadSecs(f, nsects) ==
    LET avail == (Len(f) - HdrSize) \div SecSize
        rest  == (Len(f) - HdrSize) % SecSize
    IN  IF nsects < 0 THEN [err |-> "panic: makeslice: len out of range", secs |-> <<>>]
        ELSE IF nsects > avail
        THEN [err |-> IF rest = 0 THEN "EOF" ELSE "unexpected EOF", secs |-> <<>>]
        ELSE [err |-> "nil",
              secs |-> [i \in 1..nsects |->
                          SecFromBytes(SubSeq(f, HdrSize + SecSize * (i - 1) + 1,
                                                 HdrSize + SecSize * i))]]

\* The position of the first null byte of f at or after pos; Len(f) if none.
RECURSIVE NullAt(_, _)
NullAt(f, pos) ==
    IF pos >= Len(f) THEN Len(f)
    ELSE IF f[pos + 1] = 0 THEN pos
    ELSE NullAt(f, pos + 1)

\* func readByteString(r io.Reader) ([]byte, error): the bytes from pos up to
\* a null byte, which is consumed; EOF if the file ends first.
readByteString(f, pos) ==
    LET z == NullAt(f, pos)
    IN  IF z >= Len(f) THEN [err |-> "EOF", bytes |-> <<>>, pos |-> Max(pos, Len(f))]
        ELSE [err |-> "nil", bytes |-> SubSeq(f, pos + 1, z), pos |-> z + 1]

\* file.Read(tmpbuffer) for a buffer of n zero bytes: nothing is read into an
\* empty buffer; at or past the end the read fails with EOF; otherwise the
\* bytes the file still has are copied and the rest of the buffer stays zero.
ReadData(f, pos, n) ==
    IF n = 0 THEN [err |-> "nil", bytes |-> <<>>, pos |-> pos]
    ELSE IF pos >= Len(f) THEN [err |-> "EOF", bytes |-> Zeros(n), pos |-> pos]
    ELSE LET k == Min(n, Len(f) - pos)
         IN  [err |-> "nil",
              bytes |-> SubSeq(f, pos + 1, pos + k) \o Zeros(n - k),
              pos |-> pos + k]

\* The switch on DataType that turns the payload into SFOPair.Value.
\* binary.LittleEndian.Uint32 panics on a slice shorter than 4 bytes; a type
\* tag the switch does not name leaves Value nil.
DecodeValue(dataType, tmpbuffer) ==
    CASE dataType = 0 -> [err |-> "nil", value |-> BytesVal(tmpbuffer)]
      [] dataType = 2 -> [err |-> "nil", value |-> StringVal(tmpbuffer)]
      [] dataType = 4 ->
            IF Len(tmpbuffer) < 4
            THEN [err |-> "panic: index out of range", value |-> NilVal]
            ELSE [err |-> "nil", value |-> IntVal(Int32FromBytes(SubSeq(tmpbuffer, 1, 4)))]
      [] OTHER -> [err |-> "nil", value |-> NilVal]

\* The second loop of NewSFOParser from section i (1-based) on: pos is the
\* file position, pairs the pairs decoded so far.
RECURSIVE DecodePairs(_, _, _, _, _, _)
DecodePairs(f, hdr, secs, i, pos, pairs) ==
    IF i > Len(secs) THEN [err |-> "nil", Pairs |-> pairs]
    ELSE
    LET sec   == secs[i]
        lpos  == Seek(pos, ToInt16(sec.LabelOff + ToInt16(hdr.LabelPtr)))
        label == readByteString(f, lpos)
        dpos  == Seek(label.pos, Add32(sec.DataOff, hdr.DataPtr))
    IN  IF label.err # "nil" THEN [err |-> label.err, Pairs |-> <<>>]
        ELSE IF sec.DatafieldUsed < 0
        THEN [err |-> "panic: makeslice: len out of range", Pairs |-> <<>>]
        ELSE
        LET data == ReadData(f, dpos, sec.DatafieldUsed)
            val  == DecodeValue(sec.DataType, data.bytes)
        IN  IF data.err # "nil" THEN [err |-> data.err, Pairs |-> <<>>]
            ELSE IF val.err # "nil" THEN [err |-> val.err, Pairs |-> <<>>]
            ELSE DecodePairs(f, hdr, secs, i + 1, data.pos,
                             Append(pairs, [Label  |-> label.bytes,
                                            Type   |-> sec.DataType,
                                            Value  |-> val.value,
                                            PsfSec |-> sec]))

\* bytes.Equal(parser.PsfHdr.Psf[:], []byte{0, 'P', 'S', 'F'}), with a
\* variant that compares the first three bytes only.
MagicOkFirst3(psf) == SubSeq(psf, 1, 3) = SubSeq(Magic, 1, 3)

MagicOk(psf) == psf = Magic

\* func NewSFOParser(filePath string) (*SFOParser, error), as a function of
\* what the path names and of the file's bytes.
Decode(p, f) ==
    IF p = "missing" THEN [err |-> "stat: no such file or directory", parser |-> <<>>]
    ELSE IF p = "dir" THEN [err |-> "not a valid SFO file", parser |-> <<>>]
    ELSE
    LET h == ReadHdr(f)
    IN  IF h.err # "nil" THEN [err |-> h.err, parser |-> <<>>]
        ELSE IF ~MagicOk(h.hdr[1].Psf) THEN [err |-> "not a valid SFO file", parser |-> <<>>]
        ELSE
        LET hdr == h.hdr[1]
            s   == ReadSecs(f, hdr.NSects)
        IN  IF s.err # "nil" THEN [err |-> s.err, parser |-> <<>>]
            ELSE
            LET d == DecodePairs(f, hdr, s.secs, 1, HdrSize + SecSize * hdr.NSects, <<>>)
            IN  IF d.err # "nil" THEN [err |-> d.err, parser |-> <<>>]
                ELSE [err |-> "nil",
                      parser |-> << [PsfHdr |-> hdr, PsfSec |-> s.secs, Pairs |-> d.Pairs] >>]

---------------------------------------------------------------------------
(* Writing the file.                                                       *)

\* A write of bytes b at position pos of f: it overwrites in place and
\* extends the file where it runs past the end.
WriteAt(f, pos, b) ==
    IF pos >= Len(f) THEN f \o Zeros(pos - Len(f)) \o b
    ELSE SubSeq(f, 1, pos) \o b \o SubSeq(f, pos + Len(b) + 1, Len(f))

\* binary.Write of a PsfSec: its SecSize little-endian bytes.
SecBytes(sec) ==
    LE16(sec.LabelOff) \o <<sec.Unknown, sec.DataType>> \o LE32(sec.DatafieldUsed)
        \o LE32(sec.DatafieldSize) \o LE32(sec.DataOff)

\* binary.Write of a PsfHdr: its HdrSize little-endian bytes.
HdrBytes(hdr) ==
    hdr.Psf \o hdr.Unknown \o LE32(hdr.LabelPtr) \o LE32(hdr.DataPtr) \o LE32(hdr.NSects)

\* The "Write label field" loop of SaveSFO from pair i on: every section gets
\* the buffer's length as its LabelOff, then the label and a null byte follow.
RECURSIVE WriteLabels(_, _, _, _)
WriteLabels(pairs, secs, i, buf) ==
    IF i > Len(pairs) THEN [buf |-> buf, secs |-> secs]
    ELSE WriteLabels(pairs,
                     [secs EXCEPT ![i].LabelOff = ToInt16(Len(buf))],
                     i + 1,
                     buf \o pairs[i].Label \o <<0>>)

\* The bytes the switch of the "Write data set" loop appends for one pair.  A
\* type assertion on a value of another dynamic type panics; a type tag the
\* switch does not name appends nothing.
ValueBytes(pair) ==
    CASE pair.Type = 0 ->
            IF pair.Value.kind = "bytes" THEN [err |-> "nil", bytes |-> pair.Value.b]
            ELSE [err |-> "panic: interface conversion", bytes |-> <<>>]
      [] pair.Type = 2 ->
            IF pair.Value.kind = "string" THEN [err |-> "nil", bytes |-> pair.Value.b]
            ELSE [err |-> "panic: interface conversion", bytes |-> <<>>]
      [] pair.Type = 4 ->
            IF pair.Value.kind = "int32" THEN [err |-> "nil", bytes |-> LE32(pair.Value.n)]
            ELSE [err |-> "panic: interface conversion", bytes |-> <<>>]
      [] OTHER -> [err |-> "nil", bytes |-> <<>>]

\* The "Write data set" loop of SaveSFO from pair i on.  buf is the buffer
\* the label loop filled: it is not reset in between.
RECURSIVE WriteData(_, _, _, _)
WriteData(pairs, secs, i, buf) ==
    IF i > Len(pairs) THEN [err |-> "nil", buf |-> buf, secs |-> secs]
    ELSE
    LET dataOff == Len(buf)
        v       == ValueBytes(pairs[i])
        buf1    == buf \o v.bytes
        used    == Len(buf1) - dataOff
        size    == alignment(used, 4)
        buf2    == buf1 \o Zeros(Max(0, dataOff + size - Len(buf1)))
    IN  IF v.err # "nil" THEN [err |-> v.err, buf |-> buf, secs |-> secs]
        ELSE WriteData(pairs,
                       [secs EXCEPT ![i].DataOff = dataOff,
                                    ![i].DatafieldUsed = used,
                                    ![i].DatafieldSize = size],
                       i + 1,
                       buf2)

\* The "Write PsfSec" loop from section i on, starting at position pos.  The
\* error binary.Write returns is dropped.  failed holds the writes that fail:
\* section i's is numbered i.  A failed write changes neither the file nor
\* the position.
RECURSIVE WriteSecs(_, _, _, _, _)
WriteSecs(f, secs, i, pos, failed) ==
    IF i > Len(secs) THEN f
    ELSE IF i \in failed THEN WriteSecs(f, secs, i + 1, pos, failed)
    ELSE WriteSecs(WriteAt(f, pos, SecBytes(secs[i])), secs, i + 1, pos + SecSize, failed)

\* The body of SaveSFO once the file is open: the parser it leaves, the file
\* it leaves and the error it returns.  The header's write is numbered 0.
Encode(p, f, failed) ==
    LET labelPtr == HdrSize + Len(p.PsfSec) * SecSize
        n        == Min(p.PsfHdr.NSects, Len(p.Pairs))
        l        == WriteLabels(SubSeq(p.Pairs, 1, n), p.PsfSec, 1, <<>>)
        dataPtr  == alignment(Len(l.buf), 4)
        lbuf     == l.buf \o Zeros(dataPtr - Len(l.buf))
        d        == WriteData(SubSeq(p.Pairs, 1, n), l.secs, 1, lbuf)
        hdr      == [p.PsfHdr EXCEPT !.LabelPtr = labelPtr, !.DataPtr = dataPtr]
        f1       == WriteSecs(f, d.secs, 1, Seek(0, HdrSize), failed)
        f2       == IF 0 \in failed THEN f1 ELSE WriteAt(f1, 0, HdrBytes(hdr))
    IN  IF d.err # "nil" THEN [err |-> d.err, parser |-> p, file |-> f]
        ELSE [err |-> "nil",
              parser |-> [p EXCEPT !.PsfHdr = hdr, !.PsfSec = d.secs],
              file |-> f2]

---------------------------------------------------------------------------
(* fmt.Sscanf(value, "%d", &intValue) for an int32.                        *)

IsDigit(c) == c >= 48 /\ c <= 57

\* SkipSpace: the position after the leading blanks of v from p on.
RECURSIVE SkipSpace(_, _)
SkipSpace(v, p) ==
    IF p <= Len(v) /\ v[p] \in {32, 9} THEN SkipSpace(v, p + 1) ELSE p

\* scanNumber: the position after the run of digits and underscores from p.
RECURSIVE NumberEnd(_, _)
NumberEnd(v, p) ==
    IF p <= Len(v) /\ (IsDigit(v[p]) \/ v[p] = 95) THEN NumberEnd(v, p + 1) ELSE p

\* strconv.ParseInt of the digits tok[i..] with the narrowing to 32 bits:
\* acc is the value so far, negative when neg.
RECURSIVE ParseDigits(_, _, _, _)
ParseDigits(tok, i, acc, neg) ==
    IF i > Len(tok) THEN [err |-> "nil", n |-> acc]
    ELSE
    LET d == tok[i] - 48
    IN  IF neg
        THEN IF acc > -214748364 \/ (acc = -214748364 /\ d <= 8)
             THEN ParseDigits(tok, i + 1, acc * 10 - d, neg)
             ELSE [err |-> "integer overflow on token", n |-> 0]
        ELSE IF acc < 214748364 \/ (acc = 214748364 /\ d <= 7)
             THEN ParseDigits(tok, i + 1, acc * 10 + d, neg)
             ELSE [err |-> "integer overflow on token", n |-> 0]

\* The scan of one %d verb: blanks are skipped, a sign is accepted, then the
\* longest run of digits is taken.  What follows the run is left unread and
\* is no error.
Sscanf(v) ==
    LET p0 == SkipSpace(v, 1)
        p1 == IF p0 <= Len(v) /\ v[p0] \in {43, 45} THEN p0 + 1 ELSE p0
        p2 == NumberEnd(v, p1)
        tok == SubSeq(v, p1, p2 - 1)
    IN  IF p0 <= Len(v) /\ v[p0] = 10 THEN [err |-> "unexpected newline", n |-> 0]
        ELSE IF p0 > Len(v) \/ p1 > Len(v) THEN [err |-> "unexpected EOF", n |-> 0]
        ELSE IF p2 = p1 THEN [err |-> "expected integer", n |-> 0]
        ELSE IF \E k \in 1..Len(tok) : tok[k] = 95
        THEN [err |-> "strconv.ParseInt: invalid syntax", n |-> 0]
        ELSE ParseDigits(tok, 1, 0, p1 > p0 /\ v[p0] = 45)

---------------------------------------------------------------------------
(* The mutators, as functions of the parser.                               *)

\* The switch of SetValueByIndex for the pair at index (0-based, in range):
\* the error returned and the pair's new value.  Indexing the last byte of
\* an empty string panics.
SetValue(pair, value) ==
    CASE pair.Type = ByteType -> [err |-> "nil", value |-> BytesVal(value)]
      [] pair.Type = StringType ->
            IF Len(value) = 0
            THEN [err |-> "panic: index out of range", value |-> pair.Value]
            ELSE IF value[Len(value)] # 0
            THEN [err |-> "nil", value |-> StringVal(value \o <<0>>)]
            ELSE [err |-> "nil", value |-> StringVal(value)]
      [] pair.Type = IntType ->
            LET s == Sscanf(value)
            IN  IF s.err # "nil" THEN [err |-> s.err, value |-> pair.Value]
                ELSE [err |-> "nil", value |-> IntVal(s.n)]
      [] OTHER -> [err |-> "unknown type", value |-> pair.Value]

---------------------------------------------------------------------------
(* The files the model starts from.                                        *)

\* The entries a file is laid out from, each a label, a type tag and the
\* payload's bytes, in the order of their labels.  Besides the three
\* supported types the pool holds an integer whose payload is not 4 bytes
\* long and an entry of an unsupported type.
EntryPool ==
    << [Label |-> <<75>>,         Type |-> 0, Payload |-> <<7, 0, 9, 9, 9>>],
       [Label |-> <<78>>,         Type |-> 4, Payload |-> LE32(-2)],
       [Label |-> <<83>>,         Type |-> 4, Payload |-> <<1, 2>>],
       [Label |-> <<84>>,         Type |-> 2, Payload |-> <<72, 105, 0>>],
       [Label |-> <<85>>,         Type |-> 1, Payload |-> <<5, 6>>],
       [Label |-> <<86, 69, 82>>, Type |-> 4, Payload |-> LE32(1)] >>

\* The entry lists of at most MaxSects entries of the pool with labels in
\* ascending order.
EntryLists ==
    UNION { { [i \in 1..n |-> EntryPool[ix[i]]] :
                ix \in { jx \in [1..n -> 1..Len(EntryPool)] :
                           \A i \in 1..(n - 1) : jx[i] < jx[i + 1] } }
            : n \in 0..MaxSects }

\* The label block of entries i.. : each label and its null terminator.
RECURSIVE LabelBlock(_, _)
LabelBlock(es, i) ==
    IF i > Len(es) THEN <<>> ELSE es[i].Label \o <<0>> \o LabelBlock(es, i + 1)

\* The data block of entries i.. : each payload padded to a multiple of 4.
RECURSIVE DataBlock(_, _)
DataBlock(es, i) ==
    IF i > Len(es) THEN <<>>
    ELSE es[i].Payload \o Zeros(alignment(Len(es[i].Payload), 4) - Len(es[i].Payload))
             \o DataBlock(es, i + 1)

\* The file that holds the entries es in the layout NewSFOParser reads:
\* header, section descriptors, label block at LabelPtr, data block at
\* DataPtr, both offsets from the file's start, LabelOff and DataOff from
\* the start of their block.
ValidFile(es) ==
    LET n        == Len(es)
        labelPtr == HdrSize + n * SecSize
        labels   == LabelBlock(es, 1)
        padded   == labels \o Zeros(alignment(Len(labels), 4) - Len(labels))
        dataPtr  == labelPtr + Len(padded)
        hdr      == [Psf |-> Magic, Unknown |-> <<1, 1, 0, 0>>,
                     LabelPtr |-> labelPtr, DataPtr |-> dataPtr, NSects |-> n]
        sec(i)   == [LabelOff      |-> Len(LabelBlock(SubSeq(es, 1, i - 1), 1)),
                     Unknown       |-> 4,
                     DataType      |-> es[i].Type,
                     DatafieldUsed |-> Len(es[i].Payload),
                     DatafieldSize |-> alignment(Len(es[i].Payload), 4),
                     DataOff       |-> Len(DataBlock(SubSeq(es, 1, i - 1), 1))]
        RECURSIVE secs(_)
        secs(i)  == IF i > n THEN <<>> ELSE SecBytes(sec(i)) \o secs(i + 1)
    IN  HdrBytes(hdr) \o secs(1) \o padded \o DataBlock(es, 1)

\* f with its magic spoiled, when it has one.
BadMagic(f) == IF Len(f) >= 4 THEN [f EXCEPT ![4] = 71] ELSE f

\* The lengths a file is cut to: inside the magic, inside the header, at the
\* header's end, inside and at the end of the last payload.
CutLens(f) == {0, 3, 12, HdrSize, Len(f) - 4, Len(f) - 1, Len(f)} \cap 0..Len(f)

\* The files the model starts from: the valid files, and the same files cut
\* short or with a wrong magic.
InitFiles ==
    UNION { UNION { { SubSeq(ValidFile(es), 1, k), BadMagic(SubSeq(ValidFile(es), 1, k)) }
                    : k \in CutLens(ValidFile(es)) }
            : es \in EntryLists }

\* The texts SetValueByIndex is called with: "", "7", "12a", "ab", "a\x00".
Texts == { <<>>, <<55>>, <<49, 50, 97>>, <<97, 98>>, <<97, 0>> }

\* The labels SetLabelByIndex is called with: "", "XYZ".
Labels == { <<>>, <<88, 89, 90>> }

---------------------------------------------------------------------------
(* The state machine.                                                      *)

Init ==
    /\ path \in {"file", "dir", "missing"}
    /\ file \in (IF path = "file" THEN InitFiles ELSE {<<>>})
    /\ parser = <<>>
    /\ op = "none"
    /\ ret = "nil"
    /\ calls = 0

\* A panic ends the process.
Panicked == ret \in {"panic: index out of range",
                     "panic: makeslice: len out of range",
                     "panic: interface conversion"}

\* sfo.NewSFOParser(FilePath).
NewSFOParser ==
    /\ ~Panicked
    /\ LET r == Decode(path, file)
       IN  /\ parser' = (IF r.err \in {"panic: index out of range",
                                        "panic: makeslice: len out of range"}
                         THEN parser ELSE r.parser)
           /\ ret' = r.err
    /\ op' = "NewSFOParser"
    /\ UNCHANGED <<path, file, calls>>

\* parser.SaveSFO().  openFails: os.OpenFile fails.  failed: the writes that
\* fail, 0 for the header's and i for section i's.
SaveSFO(openFails, failed) ==
    /\ ~Panicked
    /\ parser # <<>>
    /\ calls < MaxCalls
    /\ failed \subseteq 0..Len(parser[1].PsfSec)
    /\ openFails => failed = {}
    /\ IF openFails
       THEN /\ ret' = "open: permission denied"
            /\ UNCHANGED <<file, parser>>
       ELSE LET r == Encode(parser[1], file, failed)
            IN  /\ ret' = r.err
                /\ parser' = <<r.parser>>
                /\ file' = r.file
    /\ op' = "SaveSFO"
    /\ calls' = calls + 1
    /\ UNCHANGED path

\* parser.SetValueByIndex(index, value).
SetValueByIndex(index, value) ==
    /\ ~Panicked
    /\ parser # <<>>
    /\ calls < MaxCalls
    /\ IF index < 0 \/ index >= Len(parser[1].Pairs)
       THEN /\ ret' = "index out of range"
            /\ UNCHANGED parser
       ELSE LET r == SetValue(parser[1].Pairs[index + 1], value)
            IN  /\ ret' = r.err
                /\ parser' = <<[parser[1] EXCEPT !.Pairs[index + 1].Value = r.value]>>
    /\ op' = "SetValueByIndex"
    /\ calls' = calls + 1
    /\ UNCHANGED <<path, file>>

\* parser.SetLabelByIndex(index, value).
SetLabelByIndex(index, value) ==
    /\ ~Panicked
    /\ parser # <<>>
    /\ calls < MaxCalls
    /\ IF index < 0 \/ index >= Len(parser[1].Pairs)
       THEN /\ ret' = "index out of range"
            /\ UNCHANGED parser
       ELSE /\ ret' = "nil"
            /\ parser' = <<[parser[1] EXCEPT !.Pairs[index + 1].Label = value]>>
    /\ op' = "SetLabelByIndex"
    /\ calls' = calls + 1
    /\ UNCHANGED <<path, file>>

\* The indexes the mutators are called with: the indexes of a full file and
\* one past them.
Indexes == 0..MaxSects

\* The sets of failing writes of one SaveSFO: none, or any one write.
FailSets == {{}} \cup { {w} : w \in 0..MaxSects }

Next ==
    \/ NewSFOParser
    \/ \E openFails \in BOOLEAN, failed \in FailSets : SaveSFO(openFails, failed)
    \/ \E index \in Indexes, value \in Texts : SetValueByIndex(index, value)
    \/ \E index \in Indexes, value \in Labels : SetLabelByIndex(index, value)

Spec == Init /\ [][Next]_vars

---------------------------------------------------------------------------
(* What the properties below speak of.                                     *)

\* The pairs and section descriptors of the loaded model.
Pairs == IF parser = <<>> THEN <<>> ELSE parser[1].Pairs

Secs == IF parser = <<>> THEN <<>> ELSE parser[1].PsfSec

\* An entry of a supported type whose payload has the length its type asks.
WellFormedEntry(e) == e.Type \in {0, 2, 4} /\ (e.Type = 4 => Len(e.Payload) = 4)

\* The valid files: those laid out from well-formed entries.
WellFormedFiles ==
    { ValidFile(es) : es \in { l \in EntryLists : \A i \in 1..Len(l) : WellFormedEntry(l[i]) } }

\* The files with an integer section whose payload is not 4 bytes: used_size
\* is below 4, or the file ends inside the payload of its last, integer, entry.
ShortIntFiles ==
    { ValidFile(es) : es \in { l \in EntryLists :
                                 \E i \in 1..Len(l) : l[i].Type = 4 /\ Len(l[i].Payload) < 4 } }
    \cup
    { SubSeq(ValidFile(es), 1, Len(ValidFile(es)) - 1) :
        es \in { l \in EntryLists : /\ Len(l) >= 1
                                    /\ \A i \in 1..Len(l) : WellFormedEntry(l[i])
                                    /\ l[Len(l)].Type = 4 } }

\* The files with a section of a type tag outside {0, 2, 4} and no other defect.
UnsupportedTypeFiles ==
    { ValidFile(es) : es \in { l \in EntryLists :
                                 /\ \E i \in 1..Len(l) : l[i].Type \notin {0, 2, 4}
                                 /\ \A i \in 1..Len(l) :
                                        l[i].Type \in {0, 2, 4} => WellFormedEntry(l[i]) } }

\* The first bytes of f, at most 4.
First4(f) == SubSeq(f, 1, Min(4, Len(f)))

\* v is a decimal integer: an optional sign, then digits only.
IsDecimal(v) ==
    LET d == IF Len(v) >= 1 /\ v[1] \in {43, 45} THEN 2 ELSE 1
    IN  Len(v) >= d /\ \A k \in d..Len(v) : IsDigit(v[k])

\* The errors Sscanf returns.
ParseErrors == {"unexpected newline", "unexpected EOF", "expected integer",
                "strconv.ParseInt: invalid syntax", "integer overflow on token"}

\* The length in bytes of a pair's serialized value.
SerializedLen(pair) ==
    CASE pair.Type = 0 -> Len(pair.Value.b)
      [] pair.Type = 2 -> Len(pair.Value.b)
      [] pair.Type = 4 -> 4
      [] OTHER -> 0

\* The label, type tag and value of every pair.
Entries(pairs) ==
    [i \in 1..Len(pairs) |->
        [Label |-> pairs[i].Label, Type |-> pairs[i].Type, Value |-> pairs[i].Value]]

\* Section descriptor i (1-based) as the file f holds it.
SecOnDisk(f, i) ==
    SecFromBytes(SubSeq(f, HdrSize + SecSize * (i - 1) + 1, HdrSize + SecSize * i))

\* reserved_size is used_size rounded up to the next multiple of 4.
RoundedUp(sec) ==
    /\ sec.DatafieldSize % 4 = 0
    /\ sec.DatafieldSize >= sec.DatafieldUsed
    /\ sec.DatafieldSize - sec.DatafieldUsed < 4

---------------------------------------------------------------------------
(* The properties.                                                         *)

\* C1: opening a valid file and saving it with no mutation in between leaves
\* the file byte-identical.
C1_RoundTrip ==
    [][ ( /\ op = "NewSFOParser"
          /\ ret = "nil"
          /\ file \in WellFormedFiles
          /\ SaveSFO(FALSE, {}) )
        => file' = file ]_vars

\* C2: after a SaveSFO in which every write succeeded, opening the file again
\* yields the saved model's entries: same order, labels, type tags and values.
C2_EncodeThenDecode ==
    [][ ( SaveSFO(FALSE, {}) /\ ret' = "nil" )
        => /\ Decode(path, file').err = "nil"
           /\ Entries(Decode(path, file').parser[1].Pairs) = Entries(parser'[1].Pairs) ]_vars

\* C3: when a write of SaveSFO fails, SaveSFO returns an error and the file
\* holds either its previous contents or the complete new encoding.
C3_FailedSaveIsAtomic ==
    [][ \A failed \in FailSets \ {{}} :
          SaveSFO(FALSE, failed)
          => /\ ret' # "nil"
             /\ \/ file' = file
                \/ file' = Encode(parser[1], file, {}).file ]_vars

\* C4 as stated: every stream whose first 4 bytes are not the magic, streams
\* shorter than the header included, fails with the format error and gives
\* no model.
C4_BadMagicAnyLength ==
    ( op = "NewSFOParser" /\ path = "file" /\ Len(file) >= 4 /\ First4(file) # Magic )
    => ( ret = "not a valid SFO file" /\ parser = <<>> )

\* C4 as amended: a stream of at least HdrSize bytes whose first 4 bytes are
\* not the magic fails with the format error; a stream shorter than HdrSize
\* bytes fails with EOF (empty) or unexpected EOF; neither gives a model.
C4_BadMagic ==
    /\ ( op = "NewSFOParser" /\ path = "file" /\ Len(file) >= HdrSize /\ First4(file) # Magic )
       => ( ret = "not a valid SFO file" /\ parser = <<>> )
    /\ ( op = "NewSFOParser" /\ path = "file" /\ Len(file) < HdrSize )
       => ( ret = (IF Len(file) = 0 THEN "EOF" ELSE "unexpected EOF") /\ parser = <<>> )

\* A stream longer than the header, with a wrong magic, was rejected.
C4_Witness ==
    /\ op = "NewSFOParser"
    /\ path = "file"
    /\ Len(file) > HdrSize + SecSize
    /\ First4(file) # Magic
    /\ ret = "not a valid SFO file"

\* C5: SetValueByIndex on an integer-typed entry with a string that is not a
\* decimal integer fails with a parse error and leaves the entry as it was.
C5_NonNumericRejected ==
    [][ \A index \in 0..(Len(Pairs) - 1), value \in Texts :
          ( /\ Pairs[index + 1].Type = IntType
            /\ ~IsDecimal(value)
            /\ SetValueByIndex(index, value) )
          => /\ ret' \in ParseErrors
             /\ parser'[1].Pairs[index + 1] = Pairs[index + 1] ]_vars

\* C6: after a successful SaveSFO every section descriptor, in the model and,
\* when no write failed, in the file, has reserved_size = align4(used_size)
\* and used_size = the serialized length of the entry's value.
C6_SizesAfterSave ==
    [][ \A failed \in FailSets :
          ( SaveSFO(FALSE, failed) /\ ret' = "nil" )
          => \A i \in 1..Len(parser'[1].Pairs) :
                /\ RoundedUp(parser'[1].PsfSec[i])
                /\ parser'[1].Pairs[i].Type \in {0, 2, 4}
                   => parser'[1].PsfSec[i].DatafieldUsed = SerializedLen(parser'[1].Pairs[i])
                /\ failed = {}
                   => /\ RoundedUp(SecOnDisk(file', i))
                      /\ parser'[1].Pairs[i].Type \in {0, 2, 4}
                         => SecOnDisk(file', i).DatafieldUsed
                              = SerializedLen(parser'[1].Pairs[i]) ]_vars

\* A model was saved after SetValueByIndex stored "ab\x00" in its first, text,
\* entry: used_size 3 is reserved as 4; the second entry is aligned as it is.
C6_Witness ==
    /\ op = "SaveSFO"
    /\ ret = "nil"
    /\ Len(Pairs) = 2
    /\ Pairs[1].Type = 2
    /\ Pairs[1].Value.b = <<97, 98, 0>>
    /\ Secs[1].DatafieldUsed = 3
    /\ Secs[1].DatafieldSize = 4
    /\ Pairs[2].Type = 4
    /\ Secs[2].DatafieldUsed = 4
    /\ Secs[2].DatafieldSize = 4
    /\ SecOnDisk(file, 1) = Secs[1]

\* C7: SetValueByIndex on a text-typed entry succeeds for every text, the
\* empty one included, and stores the text with one null byte appended unless
\* it ends in one; the type tag and the label stay.
C7_TextStored ==
    [][ \A index \in 0..(Len(Pairs) - 1), value \in Texts :
          ( Pairs[index + 1].Type = StringType /\ SetValueByIndex(index, value) )
          => /\ ret' = "nil"
             /\ parser'[1].Pairs[index + 1].Value =
                   StringVal(IF Len(value) > 0 /\ value[Len(value)] = 0
                             THEN value ELSE value \o <<0>>)
             /\ parser'[1].Pairs[index + 1].Type = Pairs[index + 1].Type
             /\ parser'[1].Pairs[index + 1].Label = Pairs[index + 1].Label ]_vars

\* C8: decoding an integer section whose payload is not exactly 4 bytes
\* returns the format error and no model: no crash, no integer value.
C8_ShortIntegerRejected ==
    ( op = "NewSFOParser" /\ path = "file" /\ file \in ShortIntFiles )
    => ( ret = "not a valid SFO file" /\ parser = <<>> )

\* C9: a section of a type tag outside {0, 2, 4} is rejected by NewSFOParser
\* and by SaveSFO: neither returns without error for a file or a model that
\* holds one, and no pair of such a tag is ever produced.
C9_UnsupportedTypeRejected ==
    /\ ( op = "NewSFOParser" /\ path = "file" /\ file \in UnsupportedTypeFiles )
       => ( ret # "nil" /\ parser = <<>> )
    /\ ( op = "SaveSFO" /\ \E i \in 1..Len(Pairs) : Pairs[i].Type \notin {0, 2, 4} )
       => ret # "nil"
    /\ \A i \in 1..Len(Pairs) : Pairs[i].Type \in {0, 2, 4}

\* C10: after SaveSFO the first entry's data_offset is 0 and every later
\* entry's is the previous entry's data_offset plus its reserved_size.
C10_DataOffsets ==
    ( op = "SaveSFO" /\ ret = "nil" )
    => /\ Len(Secs) >= 1 => Secs[1].DataOff = 0
       /\ \A i \in 2..Len(Secs) :
             Secs[i].DataOff = Secs[i - 1].DataOff + Secs[i - 1].DatafieldSize

=============================================================================
